---- MODULE Spec2Model ----
(***************************************************************************)
(* Model of the two FastAPI tutorial services of the repository:           *)
(*   src/apis/blog_api.py  users / posts / comments kept in three dicts    *)
(*   src/apis/main.py      users kept in one list                          *)
(* Every HTTP handler is one action.  The response of the handler that ran *)
(* last is kept in the variable last (operation, status code, error       *)
(* detail, returned body).                                                 *)
(*                                                                         *)
(* A Python dict is modelled as the sequence of its values in insertion    *)
(* order (every stored record carries its key in the field id).  Strings   *)
(* that the code lower-cases or searches are sequences of one-character    *)
(* strings; strings that the code only compares are TLA+ strings.          *)
(* Optional[T] is [some |-> FALSE] (None) or [some |-> TRUE, val |-> v].   *)
(***************************************************************************)
EXTENDS Integers, Sequences, FiniteSets, TLC

VARIABLES
    users_db,      \* blog_api.users_db
    posts_db,      \* blog_api.posts_db
    comments_db,   \* blog_api.comments_db
    uuid_count,    \* number of uuid.uuid4() calls made so far
    clock,         \* the last value datetime.now() returned
    last,          \* the response of the last handler that ran
    user_db,       \* main.user_db
    threads        \* concurrent requests in flight (threadpool workers)

vars == <<users_db, posts_db, comments_db, uuid_count, clock, last, user_db, threads>>

(***************************************************************************)
(* Bounds.  The handlers themselves are unbounded; every specification     *)
(* below keeps the steps whose next state is within its bounds.            *)
(***************************************************************************)
MaxRecords == 5        \* Spec: uuid4() calls
MaxRecordsAll == 3     \* SpecAll: uuid4() calls
MaxRecordsCreate == 3  \* SpecCreate: uuid4() calls
MaxRecordsViews == 3   \* SpecViews: uuid4() calls
MaxRecordsUpdate == 2  \* SpecUpdate: uuid4() calls
MaxRecordsRead == 4    \* SpecRead: uuid4() calls
MaxCount == 1          \* SpecAll, SpecUpdate: likes plus views, over all posts
MaxViews == 2          \* SpecViews: views of one post
MaxClock == 1          \* SpecUpdate: the latest instant the clock reaches
MaxUsersMain == 2      \* SpecMain, SpecConc: length of main.user_db
MaxRecordsConc == 2    \* SpecConc: uuid4() calls
MaxThreads == 2        \* SpecConc: threadpool workers

Max(a, b) == IF a >= b THEN a ELSE b
Min(a, b) == IF a <= b THEN a ELSE b

(***************************************************************************)
(* Python values                                                           *)
(***************************************************************************)
None == [some |-> FALSE]
Some(v) == [some |-> TRUE, val |-> v]

\* str.lower() on one character
LowerChar(c) ==
    CASE c = "P" -> "p"
      [] c = "H" -> "h"
      [] c = "Y" -> "y"
      [] OTHER -> c

\* str.lower()
Lower(s) == [i \in 1..Len(s) |-> LowerChar(s[i])]

\* sub in s, for strings
SubstringOf(sub, s) ==
    \E i \in 0..(Len(s) - Len(sub)) : SubSeq(s, i + 1, i + Len(sub)) = sub

\* x in xs, for a list
InList(x, xs) == \E i \in 1..Len(xs) : xs[i] = x

\* xs[start:stop] for any integers start and stop
PySlice(xs, start, stop) ==
    LET n == Len(xs)
        Clamp(i) == IF i < 0 THEN Max(i + n, 0) ELSE Min(i, n)
    IN  SubSeq(xs, Clamp(start) + 1, Clamp(stop))

\* bool(x) of an Optional[str]: None and "" are falsy
Truthy(opt) == opt.some /\ opt.val # <<>>

\* key in db
HasKey(db, key) == \E i \in 1..Len(db) : db[i].id = key

\* db[key]
Lookup(db, key) == db[CHOOSE i \in 1..Len(db) : db[i].id = key]

\* db[key] = rec : a new key goes last, an existing key keeps its place
DictSet(db, key, rec) ==
    IF HasKey(db, key)
    THEN [i \in 1..Len(db) |-> IF db[i].id = key THEN rec ELSE db[i]]
    ELSE Append(db, rec)

\* del db[key]
DictDel(db, key) ==
    LET Keep(r) == r.id # key
    IN  SelectSeq(db, Keep)

\* str(uuid.uuid4()): a string no earlier call returned
Uuid4 == uuid_count + 1

\* datetime.now(): the instant last read, or a later one (the wall clock is taken
\* not to be set back while the service runs)
Now == {clock, clock + 1}

\* what the client gets back: the handler that answered, the status code, the
\* detail of an HTTPException, the returned body (delete_post adds the value its
\* local comments_to_delete had)
Response(op, status, detail, body) ==
    [op |-> op, status |-> status, detail |-> detail, body |-> body]

(***************************************************************************)
(* Inputs                                                                  *)
(***************************************************************************)
Usernames == {"ana", "bob"}
Emails == {"a@x.io", "b@x.io"}
UserCreateInputs ==
    [username : Usernames, email : Emails, full_name : {None}, password : {"secret"}]
Ana == [username |-> "ana", email |-> "a@x.io", full_name |-> None, password |-> "secret"]
Bob == [username |-> "bob", email |-> "b@x.io", full_name |-> None, password |-> "secret"]

\* the ids a request may name: every id issued within the bound n, and one never issued
Ids(n) == 1..(n + 1)

Title_Hello == <<"H", "e", "l", "l", "o">>
Title_pylon == <<"p", "y", "l", "o", "n">>
Content_A == <<"s", "o", "m", "e", " ", "t", "e", "x", "t", ".">>
Content_B == <<"P", "y", " ", "i", "s", " ", "f", "u", "n", ".">>
Tag_Py == <<"P", "y">>
Tag_py == <<"p", "y">>
PostCreateInputs(titles, tagLists, ids) ==
    [title : titles, content : {Content_A}, tags : tagLists, author_id : ids]
EmptyPatch == [title |-> None, content |-> None, tags |-> None]
TitlePatch == [title |-> Some(Title_pylon), content |-> None, tags |-> None]
BodyPatch == [title |-> None, content |-> Some(Content_B), tags |-> Some(<<>>)]
FullPatch == [title |-> Some(Title_pylon), content |-> Some(Content_B), tags |-> Some(<<>>)]
PostUpdateInputs == {EmptyPatch, TitlePatch, BodyPatch, FullPatch}
CommentCreateInputs(ids) ==
    [content : {<<"o", "k">>}, post_id : ids, author_id : ids]

SkipValues == {-2, 0, 1, 3}
LimitValues == {-1, 1, 10}
TagFilters == {None, Some(<<>>), Some(Tag_py), Some(Tag_Py)}
AuthorFilters == {None, Some(1)}
Queries == {<<"P", "Y">>, <<"e", "l">>}

(***************************************************************************)
(* blog_api: users                                                         *)
(***************************************************************************)
UsernameExists(username) ==
    \E i \in 1..Len(users_db) : users_db[i].username = username

EmailExistsSkipped(email) == FALSE

EmailExists(email) ==
    \E i \in 1..Len(users_db) : users_db[i].email = email

NewUser(user, user_id, now) ==
    [id |-> user_id, username |-> user.username, email |-> user.email,
     full_name |-> user.full_name, created_at |-> now, is_active |-> TRUE]

create_user(user) ==
    /\ UNCHANGED <<posts_db, comments_db, user_db, threads>>
    /\ IF UsernameExists(user.username)
       THEN /\ last' = Response("create_user", 400, "El nombre de usuario ya existe", None)
            /\ UNCHANGED <<users_db, uuid_count, clock>>
       ELSE IF EmailExists(user.email)
       THEN /\ last' = Response("create_user", 400, "El email ya esta registrado", None)
            /\ UNCHANGED <<users_db, uuid_count, clock>>
       ELSE \E now \in Now :
                 LET user_data == NewUser(user, Uuid4, now)
                 IN  /\ last' = Response("create_user", 201, "", user_data)
                     /\ users_db' = DictSet(users_db, Uuid4, user_data)
                     /\ uuid_count' = uuid_count + 1
                     /\ clock' = now

get_users(skip, limit) ==
    /\ last' = Response("get_users", 200, "",
                        PySlice(users_db, skip, skip + limit))
    /\ UNCHANGED <<users_db, posts_db, comments_db, uuid_count, clock, user_db, threads>>

get_user(user_id) ==
    /\ last' = IF ~HasKey(users_db, user_id)
               THEN Response("get_user", 404, "Usuario no encontrado", None)
               ELSE Response("get_user", 200, "", Lookup(users_db, user_id))
    /\ UNCHANGED <<users_db, posts_db, comments_db, uuid_count, clock, user_db, threads>>

(***************************************************************************)
(* blog_api: posts                                                         *)
(***************************************************************************)
NewPost(post, post_id, now) ==
    [id |-> post_id, title |-> post.title, content |-> post.content,
     tags |-> post.tags, author_id |-> post.author_id,
     created_at |-> now, updated_at |-> now, likes |-> 0, views |-> 0]

AuthorMissingNever(author_id) == FALSE

\* author_id not in users_db
AuthorMissing(author_id) == ~HasKey(users_db, author_id)

create_post(post) ==
    /\ UNCHANGED <<users_db, comments_db, user_db, threads>>
    /\ IF AuthorMissing(post.author_id)
       THEN /\ last' = Response("create_post", 404, "Autor no encontrado", None)
            /\ UNCHANGED <<posts_db, uuid_count, clock>>
       ELSE \E now \in Now :
                 LET post_data == NewPost(post, Uuid4, now)
                 IN  /\ last' = Response("create_post", 201, "", post_data)
                     /\ posts_db' = DictSet(posts_db, Uuid4, post_data)
                     /\ uuid_count' = uuid_count + 1
                     /\ clock' = now

TagMatchesIgnoreCase(tag, p) ==
    \E i \in 1..Len(p.tags) : Lower(p.tags[i]) = Lower(tag)

\* tag in p["tags"]
TagMatches(tag, p) == InList(tag, p.tags)

\* the two list comprehensions of get_posts
FilterPosts(posts, tag, author_id) ==
    LET ByTag(p) == TagMatches(tag.val, p)
        ByAuthor(p) == p.author_id = author_id.val
        tagged == IF Truthy(tag) THEN SelectSeq(posts, ByTag) ELSE posts
    IN  IF author_id.some THEN SelectSeq(tagged, ByAuthor) ELSE tagged

get_posts(skip, limit, tag, author_id) ==
    /\ last' = Response("get_posts", 200, "",
                        PySlice(FilterPosts(posts_db, tag, author_id), skip, skip + limit))
    /\ UNCHANGED <<users_db, posts_db, comments_db, uuid_count, clock, user_db, threads>>

IncViewsTwice(post) == [post EXCEPT !.views = @ + 2]

\* posts_db[post_id]["views"] += 1
IncViews(post) == [post EXCEPT !.views = @ + 1]

get_post(post_id) ==
    /\ UNCHANGED <<users_db, comments_db, uuid_count, clock, user_db, threads>>
    /\ IF ~HasKey(posts_db, post_id)
       THEN /\ last' = Response("get_post", 404, "Post no encontrado", None)
            /\ UNCHANGED posts_db
       ELSE LET post == IncViews(Lookup(posts_db, post_id))
            IN  /\ last' = Response("get_post", 200, "", post)
                /\ posts_db' = DictSet(posts_db, post_id, post)

ApplyUpdateTagsOrEmpty(post, post_update, now) ==
    [post EXCEPT
       !.title = IF post_update.title.some THEN post_update.title.val ELSE @,
       !.content = IF post_update.content.some THEN post_update.content.val ELSE @,
       !.tags = IF post_update.tags.some THEN post_update.tags.val ELSE <<>>,
       !.updated_at = now]

\* the three "is not None" assignments of update_post and the refresh of updated_at
ApplyUpdate(post, post_update, now) ==
    [post EXCEPT
       !.title = IF post_update.title.some THEN post_update.title.val ELSE @,
       !.content = IF post_update.content.some THEN post_update.content.val ELSE @,
       !.tags = IF post_update.tags.some THEN post_update.tags.val ELSE @,
       !.updated_at = now]

update_post(post_id, post_update) ==
    /\ UNCHANGED <<users_db, comments_db, uuid_count, user_db, threads>>
    /\ IF ~HasKey(posts_db, post_id)
       THEN /\ last' = Response("update_post", 404, "Post no encontrado", None)
            /\ UNCHANGED <<posts_db, clock>>
       ELSE \E now \in Now :
              LET post == ApplyUpdate(Lookup(posts_db, post_id), post_update, now)
              IN  /\ last' = Response("update_post", 200, "", post)
                  /\ posts_db' = DictSet(posts_db, post_id, post)
                  /\ clock' = now

CommentsToDeleteFirst(post_id) ==
    LET OnPost(c) == c.post_id = post_id
        hit == SelectSeq(comments_db, OnPost)
    IN  IF hit = <<>> THEN <<>> ELSE <<hit[1].id>>

CommentsToDeleteNone(post_id) == <<>>

\* comments_to_delete: the ids of the comments on post_id, in dict order
CommentsToDelete(post_id) ==
    LET OnPost(c) == c.post_id = post_id
        hit == SelectSeq(comments_db, OnPost)
    IN  [i \in 1..Len(hit) |-> hit[i].id]

\* for c_id in comments_to_delete: del comments_db[c_id]
RECURSIVE DelAll(_, _)
DelAll(db, keys) ==
    IF keys = <<>> THEN db ELSE DelAll(DictDel(db, Head(keys)), Tail(keys))

delete_post(post_id) ==
    /\ UNCHANGED <<users_db, uuid_count, clock, user_db, threads>>
    /\ IF ~HasKey(posts_db, post_id)
       THEN /\ last' = Response("delete_post", 404, "Post no encontrado", None)
            /\ UNCHANGED <<posts_db, comments_db>>
       ELSE LET comments_to_delete == CommentsToDelete(post_id)
            IN  /\ last' = Response("delete_post", 204, "", None)
                             @@ [comments_to_delete |-> comments_to_delete]
                /\ posts_db' = DictDel(posts_db, post_id)
                /\ comments_db' = DelAll(comments_db, comments_to_delete)

\* posts_db[post_id]["likes"] += 1
IncLikes(post) == [post EXCEPT !.likes = @ + 1]

like_post(post_id) ==
    /\ UNCHANGED <<users_db, comments_db, uuid_count, clock, user_db, threads>>
    /\ IF ~HasKey(posts_db, post_id)
       THEN /\ last' = Response("like_post", 404, "Post no encontrado", None)
            /\ UNCHANGED posts_db
       ELSE LET post == IncLikes(Lookup(posts_db, post_id))
            IN  /\ last' = Response("like_post", 200, "", post)
                /\ posts_db' = DictSet(posts_db, post_id, post)

\* the condition of the loop of search_posts, query already lower-cased
SearchMatches(query, post) ==
    \/ SubstringOf(query, Lower(post.title))
    \/ SubstringOf(query, Lower(post.content))
    \/ \E i \in 1..Len(post.tags) : SubstringOf(query, Lower(post.tags[i]))

search_posts(q, skip, limit) ==
    LET query == Lower(q)
        Hit(post) == SearchMatches(query, post)
        posts == SelectSeq(posts_db, Hit)
    IN  /\ last' = Response("search_posts", 200, "", PySlice(posts, skip, skip + limit))
        /\ UNCHANGED <<users_db, posts_db, comments_db, uuid_count, clock, user_db, threads>>

(***************************************************************************)
(* blog_api: comments                                                      *)
(***************************************************************************)
NewComment(comment, comment_id, now) ==
    [id |-> comment_id, content |-> comment.content, post_id |-> comment.post_id,
     author_id |-> comment.author_id, created_at |-> now]

create_comment(comment) ==
    /\ UNCHANGED <<users_db, posts_db, user_db, threads>>
    /\ IF ~HasKey(posts_db, comment.post_id)
       THEN /\ last' = Response("create_comment", 404, "Post no encontrado", None)
            /\ UNCHANGED <<comments_db, uuid_count, clock>>
       ELSE IF AuthorMissing(comment.author_id)
       THEN /\ last' = Response("create_comment", 404, "Autor no encontrado", None)
            /\ UNCHANGED <<comments_db, uuid_count, clock>>
       ELSE \E now \in Now :
                 LET comment_data == NewComment(comment, Uuid4, now)
                 IN  /\ last' = Response("create_comment", 201, "", comment_data)
                     /\ comments_db' = DictSet(comments_db, Uuid4, comment_data)
                     /\ uuid_count' = uuid_count + 1
                     /\ clock' = now

get_post_comments(post_id, skip, limit) ==
    LET OnPost(c) == c.post_id = post_id
        post_comments == SelectSeq(comments_db, OnPost)
    IN  /\ last' = IF ~HasKey(posts_db, post_id)
                   THEN Response("get_post_comments", 404, "Post no encontrado", None)
                   ELSE Response("get_post_comments", 200, "",
                                 PySlice(post_comments, skip, skip + limit))
        /\ UNCHANGED <<users_db, posts_db, comments_db, uuid_count, clock, user_db, threads>>

(***************************************************************************)
(* blog_api: statistics                                                    *)
(***************************************************************************)
RECURSIVE SumField(_, _)
SumField(posts, field) ==
    IF posts = <<>> THEN 0 ELSE Head(posts)[field] + SumField(Tail(posts), field)

\* total / total_posts if total_posts > 0 else 0 ; the quotient is kept as <<total, total_posts>>
Average(total, total_posts) == IF total_posts > 0 THEN <<total, total_posts>> ELSE 0

get_stats ==
    LET total_posts == Len(posts_db)
        total_likes == SumField(posts_db, "likes")
        total_views == SumField(posts_db, "views")
    IN  /\ last' = Response("get_stats", 200, "",
                            [total_users |-> Len(users_db),
                             total_posts |-> total_posts,
                             total_comments |-> Len(comments_db),
                             total_likes |-> total_likes,
                             total_views |-> total_views,
                             average_likes_per_post |-> Average(total_likes, total_posts),
                             average_views_per_post |-> Average(total_views, total_posts)])
        /\ UNCHANGED <<users_db, posts_db, comments_db, uuid_count, clock, user_db, threads>>

(***************************************************************************)
(* main.py: users in a list                                                *)
(***************************************************************************)
MainUserInputs == [id : {1, 2}, name : {"David"}, email : {"d@x.io", "e@x.io"}]
MainUserIds == {1, 2, 3}

\* the index of the first user with this id, 0 when the loop ends without one
FirstIndex(db, user_id) ==
    IF \E i \in 1..Len(db) : db[i].id = user_id
    THEN CHOOSE i \in 1..Len(db) :
           /\ db[i].id = user_id
           /\ \A j \in 1..(i - 1) : db[j].id # user_id
    ELSE 0

main_get_users ==
    /\ last' = Response("main_get_users", 200, "", user_db)
    /\ UNCHANGED <<users_db, posts_db, comments_db, uuid_count, clock, user_db, threads>>

crear_user(user) ==
    /\ UNCHANGED <<users_db, posts_db, comments_db, uuid_count, clock, threads>>
    /\ IF FirstIndex(user_db, user.id) # 0
       THEN /\ last' = Response("crear_user", 400, "El ID ya existe", None)
            /\ UNCHANGED user_db
       ELSE /\ user_db' = Append(user_db, user)
            /\ last' = Response("crear_user", 201, "", user)

actualizar_usuario(user_id, update_user) ==
    /\ UNCHANGED <<users_db, posts_db, comments_db, uuid_count, clock, threads>>
    /\ LET index == FirstIndex(user_db, user_id)
       IN  IF index # 0
           THEN /\ user_db' = [user_db EXCEPT ![index] = update_user]
                /\ last' = Response("actualizar_usuario", 200, "", update_user)
           ELSE /\ last' = Response("actualizar_usuario", 404, "Usuario no encontrado", None)
                /\ UNCHANGED user_db

eliminar_usuario(user_id) ==
    /\ UNCHANGED <<users_db, posts_db, comments_db, uuid_count, clock, threads>>
    /\ LET index == FirstIndex(user_db, user_id)
       IN  IF index # 0
           THEN /\ user_db' = [i \in 1..(Len(user_db) - 1) |->
                                 IF i < index THEN user_db[i] ELSE user_db[i + 1]]
                /\ last' = Response("eliminar_usuario", 200, "",
                                    [message |-> "Usuario eliminado correctamente"])
           ELSE /\ last' = Response("eliminar_usuario", 404, "Usuario no encontrado", None)
                /\ UNCHANGED user_db

(***************************************************************************)
(* Concurrent requests.  FastAPI runs a handler declared with def on a     *)
(* worker thread of its threadpool, so two requests can be inside the same *)
(* handler at once.  A worker is between two statements of the handler;    *)
(* one statement (a whole scan, the insertion) is one step.                *)
(***************************************************************************)
Threads == 1..MaxThreads

Idle == [pc |-> "idle", req |-> None, status |-> 0]

\* a worker picks up POST /users of blog_api
begin_create_user(t, user) ==
    /\ threads[t].pc = "idle"
    /\ threads' = [threads EXCEPT ![t] = [pc |-> "check_username", req |-> user, status |-> 0]]
    /\ UNCHANGED <<users_db, posts_db, comments_db, uuid_count, clock, last, user_db>>

\* if any(u["username"] == user.username ...): raise
check_username(t) ==
    /\ threads[t].pc = "check_username"
    /\ threads' = [threads EXCEPT ![t] =
                     IF UsernameExists(threads[t].req.username)
                     THEN [pc |-> "idle", req |-> None, status |-> 400]
                     ELSE [@ EXCEPT !.pc = "check_email"]]
    /\ UNCHANGED <<users_db, posts_db, comments_db, uuid_count, clock, last, user_db>>

\* if any(u["email"] == user.email ...): raise
check_email(t) ==
    /\ threads[t].pc = "check_email"
    /\ threads' = [threads EXCEPT ![t] =
                     IF EmailExists(threads[t].req.email)
                     THEN [pc |-> "idle", req |-> None, status |-> 400]
                     ELSE [@ EXCEPT !.pc = "insert_user"]]
    /\ UNCHANGED <<users_db, posts_db, comments_db, uuid_count, clock, last, user_db>>

\* user_id = str(uuid.uuid4()) ... users_db[user_id] = user_data.dict()
\* (created_at is the instant last read: nothing here depends on the time)
insert_user(t) ==
    /\ threads[t].pc = "insert_user"
    /\ users_db' = DictSet(users_db, Uuid4, NewUser(threads[t].req, Uuid4, clock))
    /\ uuid_count' = uuid_count + 1
    /\ threads' = [threads EXCEPT ![t] = [pc |-> "idle", req |-> None, status |-> 201]]
    /\ UNCHANGED <<posts_db, comments_db, clock, last, user_db>>

\* a worker picks up POST /users of main
begin_crear_user(t, user) ==
    /\ threads[t].pc = "idle"
    /\ threads' = [threads EXCEPT ![t] = [pc |-> "scan_ids", req |-> user, status |-> 0]]
    /\ UNCHANGED <<users_db, posts_db, comments_db, uuid_count, clock, last, user_db>>

\* for cada_usuario in user_db: if cada_usuario.id == user.id: raise
scan_ids(t) ==
    /\ threads[t].pc = "scan_ids"
    /\ threads' = [threads EXCEPT ![t] =
                     IF FirstIndex(user_db, threads[t].req.id) # 0
                     THEN [pc |-> "idle", req |-> None, status |-> 400]
                     ELSE [@ EXCEPT !.pc = "append_user"]]
    /\ UNCHANGED <<users_db, posts_db, comments_db, uuid_count, clock, last, user_db>>

\* user_db.append(user)
append_user(t) ==
    /\ threads[t].pc = "append_user"
    /\ user_db' = Append(user_db, threads[t].req)
    /\ threads' = [threads EXCEPT ![t] = [pc |-> "idle", req |-> None, status |-> 201]]
    /\ UNCHANGED <<users_db, posts_db, comments_db, uuid_count, clock, last>>

(***************************************************************************)
(* Specifications: sequential requests against blog_api                    *)
(***************************************************************************)
Init ==
    /\ users_db = <<>>
    /\ posts_db = <<>>
    /\ comments_db = <<>>
    /\ uuid_count = 0
    /\ clock = 0
    /\ last = Response("init", 0, "", None)
    /\ user_db = <<>>
    /\ threads = <<>>

\* likes plus views over all posts
CounterTotal(posts) == SumField(posts, "likes") + SumField(posts, "views")

\* the next state is within maxRecords uuid4() calls, maxCount likes and views in
\* all, maxViews views on any one post, and instant maxClock
Within(maxRecords, maxCount, maxViews, maxClock) ==
    /\ uuid_count' <= maxRecords
    /\ clock' <= maxClock
    /\ CounterTotal(posts_db') <= maxCount
    /\ \A i \in 1..Len(posts_db') : posts_db'[i].views <= maxViews

\* Users, posts and comments are created and posts deleted; no time passes.
Next ==
    \/ \E user \in UserCreateInputs :
         create_user(user) /\ Within(MaxRecords, 0, 0, 0)
    \/ \E user_id \in Ids(MaxRecords) : get_user(user_id)
    \/ \E post \in PostCreateInputs({Title_Hello}, {<<Tag_Py>>}, Ids(MaxRecords)) :
         create_post(post) /\ Within(MaxRecords, 0, 0, 0)
    \/ \E post_id \in Ids(MaxRecords) : delete_post(post_id)
    \/ \E comment \in CommentCreateInputs(Ids(MaxRecords)) :
         create_comment(comment) /\ Within(MaxRecords, 0, 0, 0)

Spec == Init /\ [][Next]_vars

\* Users, posts and comments are created and posts deleted, within fewer records.
NextCreate ==
    \/ \E user \in {Ana, Bob} :
         create_user(user) /\ Within(MaxRecordsCreate, 0, 0, 0)
    \/ \E post \in PostCreateInputs({Title_Hello}, {<<Tag_Py>>}, Ids(MaxRecordsCreate)) :
         create_post(post) /\ Within(MaxRecordsCreate, 0, 0, 0)
    \/ \E post_id \in Ids(MaxRecordsCreate) : delete_post(post_id)
    \/ \E comment \in CommentCreateInputs(Ids(MaxRecordsCreate)) :
         create_comment(comment) /\ Within(MaxRecordsCreate, 0, 0, 0)

SpecCreate == Init /\ [][NextCreate]_vars

\* Every handler of blog_api that writes; no time passes.
NextAll ==
    \/ \E user \in UserCreateInputs :
         create_user(user) /\ Within(MaxRecordsAll, MaxCount, MaxCount, 0)
    \/ \E post \in PostCreateInputs({Title_Hello}, {<<Tag_Py>>}, Ids(MaxRecordsAll)) :
         create_post(post) /\ Within(MaxRecordsAll, MaxCount, MaxCount, 0)
    \/ \E post_id \in Ids(MaxRecordsAll), post_update \in {TitlePatch, EmptyPatch} :
         update_post(post_id, post_update) /\ Within(MaxRecordsAll, MaxCount, MaxCount, 0)
    \/ \E post_id \in Ids(MaxRecordsAll) : delete_post(post_id)
    \/ \E comment \in CommentCreateInputs(Ids(MaxRecordsAll)) :
         create_comment(comment) /\ Within(MaxRecordsAll, MaxCount, MaxCount, 0)
    \/ \E post_id \in Ids(MaxRecordsAll) :
         like_post(post_id) /\ Within(MaxRecordsAll, MaxCount, MaxCount, 0)
    \/ \E post_id \in Ids(MaxRecordsAll) :
         get_post(post_id) /\ Within(MaxRecordsAll, MaxCount, MaxCount, 0)

SpecAll == Init /\ [][NextAll]_vars

\* Posts are read one at a time and in lists; no time passes.
NextViews ==
    \/ \E user \in {Ana} :
         create_user(user) /\ Within(MaxRecordsViews, MaxRecordsViews * MaxViews, MaxViews, 0)
    \/ \E post \in PostCreateInputs({Title_Hello}, {<<Tag_Py>>}, Ids(MaxRecordsViews)) :
         create_post(post) /\ Within(MaxRecordsViews, MaxRecordsViews * MaxViews, MaxViews, 0)
    \/ \E comment \in CommentCreateInputs(Ids(MaxRecordsViews)) :
         create_comment(comment) /\ Within(MaxRecordsViews, MaxRecordsViews * MaxViews, MaxViews, 0)
    \/ \E post_id \in Ids(MaxRecordsViews) :
         get_post(post_id) /\ Within(MaxRecordsViews, MaxRecordsViews * MaxViews, MaxViews, 0)
    \/ \E skip \in SkipValues, limit \in LimitValues, tag \in TagFilters, author_id \in AuthorFilters :
         get_posts(skip, limit, tag, author_id)
    \/ \E q \in Queries, skip \in SkipValues, limit \in LimitValues : search_posts(q, skip, limit)
    \/ \E post_id \in Ids(MaxRecordsViews), skip \in SkipValues, limit \in LimitValues :
         get_post_comments(post_id, skip, limit)
    \/ get_stats

SpecViews == Init /\ [][NextViews]_vars

\* Posts are created, liked, read and updated while time passes.
NextUpdate ==
    \/ \E user \in {Ana} :
         create_user(user) /\ Within(MaxRecordsUpdate, MaxCount, MaxCount, MaxClock)
    \/ \E post \in PostCreateInputs({Title_Hello}, {<<Tag_Py>>}, Ids(MaxRecordsUpdate)) :
         create_post(post) /\ Within(MaxRecordsUpdate, MaxCount, MaxCount, MaxClock)
    \/ \E post_id \in Ids(MaxRecordsUpdate), post_update \in PostUpdateInputs :
         update_post(post_id, post_update) /\ Within(MaxRecordsUpdate, MaxCount, MaxCount, MaxClock)
    \/ \E post_id \in Ids(MaxRecordsUpdate) :
         like_post(post_id) /\ Within(MaxRecordsUpdate, MaxCount, MaxCount, MaxClock)
    \/ \E post_id \in Ids(MaxRecordsUpdate) :
         get_post(post_id) /\ Within(MaxRecordsUpdate, MaxCount, MaxCount, MaxClock)

SpecUpdate == Init /\ [][NextUpdate]_vars

\* Users, posts and comments are created and listed; no time passes.
NextRead ==
    \/ \E user \in {Ana, Bob} :
         create_user(user) /\ Within(MaxRecordsRead, 0, 0, 0)
    \/ \E post \in PostCreateInputs({Title_Hello}, {<<>>, <<Tag_Py>>},
                                    Ids(MaxRecordsRead)) :
         create_post(post) /\ Within(MaxRecordsRead, 0, 0, 0)
    \/ \E comment \in CommentCreateInputs(Ids(MaxRecordsRead)) :
         create_comment(comment) /\ Within(MaxRecordsRead, 0, 0, 0)
    \/ \E skip \in SkipValues, limit \in LimitValues : get_users(skip, limit)
    \/ \E skip \in SkipValues, limit \in LimitValues, tag \in TagFilters, author_id \in AuthorFilters :
         get_posts(skip, limit, tag, author_id)
    \/ \E q \in Queries, skip \in SkipValues, limit \in LimitValues : search_posts(q, skip, limit)
    \/ \E post_id \in Ids(MaxRecordsRead), skip \in SkipValues, limit \in LimitValues :
         get_post_comments(post_id, skip, limit)

SpecRead == Init /\ [][NextRead]_vars

\* Sequential requests against main.
NextMain ==
    \/ main_get_users
    \/ \E user \in MainUserInputs :
         crear_user(user) /\ Len(user_db') <= MaxUsersMain
    \/ \E user_id \in MainUserIds, update_user \in MainUserInputs :
         actualizar_usuario(user_id, update_user)
    \/ \E user_id \in MainUserIds : eliminar_usuario(user_id)

SpecMain == Init /\ [][NextMain]_vars

\* Concurrent creations against blog_api and main.
InitConc ==
    /\ users_db = <<>>
    /\ posts_db = <<>>
    /\ comments_db = <<>>
    /\ uuid_count = 0
    /\ clock = 0
    /\ last = Response("init", 0, "", None)
    /\ user_db = <<>>
    /\ threads = [t \in Threads |-> Idle]

NextConc ==
    \/ \E t \in Threads, user \in {Ana, Bob} : begin_create_user(t, user)
    \/ \E t \in Threads : check_username(t)
    \/ \E t \in Threads : check_email(t)
    \/ \E t \in Threads : insert_user(t) /\ uuid_count' <= MaxRecordsConc
    \/ \E t \in Threads, user \in {u \in MainUserInputs : u.email = "d@x.io"} :
         begin_crear_user(t, user)
    \/ \E t \in Threads : scan_ids(t)
    \/ \E t \in Threads : append_user(t) /\ Len(user_db') <= MaxUsersMain

SpecConc == InitConc /\ [][NextConc]_vars

(***************************************************************************)
(* Properties                                                              *)
(***************************************************************************)
Keys(db) == {db[i].id : i \in 1..Len(db)}
Take(xs, n) == SubSeq(xs, 1, Min(n, Len(xs)))
StoreUnchanged == UNCHANGED <<users_db, posts_db, comments_db>>

\* C1: create_user with the username or the email of a stored user answers 400 and
\* leaves users_db as it was; the username is checked first, so a request that
\* repeats both is answered with the username's reason.
C1_DuplicateUserRejected ==
    [][last'.op = "create_user" =>
         \A user \in UserCreateInputs :
           create_user(user) =>
             LET sameName == \E i \in 1..Len(users_db) : users_db[i].username = user.username
                 sameMail == \E i \in 1..Len(users_db) : users_db[i].email = user.email
             IN  (sameName \/ sameMail) =>
                   /\ last'.status = 400
                   /\ users_db' = users_db
                   /\ last'.detail = IF sameName THEN "El nombre de usuario ya existe"
                                                 ELSE "El email ya esta registrado"]_vars

\* a creation was refused for its email (its username is new) while users are stored
C1_Witness ==
    /\ last.op = "create_user"
    /\ last.status = 400
    /\ last.detail = "El email ya esta registrado"
    /\ Len(users_db) >= 1

\* C2: no two records of main.user_db have the same id, whatever crear_user,
\* actualizar_usuario and eliminar_usuario calls were made.
C2_UniqueIds ==
    \A i, j \in 1..Len(user_db) : user_db[i].id = user_db[j].id => i = j

\* C3: delete_post of a stored post answers 204, removes that post, removes the
\* comments whose post_id is the post's id and no other comment, and leaves the
\* other posts and the users alone; of an unknown id it answers 404 and changes
\* nothing.
C3_DeleteCascades ==
    [][last'.op = "delete_post" =>
         \A post_id \in Ids(MaxRecords) :
           delete_post(post_id) =>
             LET OtherPost(p) == p.id # post_id
                 OnOtherPost(c) == c.post_id # post_id
             IN  IF post_id \in Keys(posts_db)
                 THEN /\ last'.status = 204
                      /\ posts_db' = SelectSeq(posts_db, OtherPost)
                      /\ comments_db' = SelectSeq(comments_db, OnOtherPost)
                      /\ users_db' = users_db
                 ELSE /\ last'.status = 404
                      /\ StoreUnchanged]_vars

\* a post was deleted together with a comment on it, and a comment on another post is
\* still stored
C3_Witness ==
    /\ last.op = "delete_post"
    /\ last.status = 204
    /\ Len(last.comments_to_delete) >= 1
    /\ comments_db # <<>>

\* C4: create_post with an author_id that is no key of users_db, and create_comment
\* with a post_id that is no key of posts_db or an author_id that is no key of
\* users_db, answer 404 and leave the three collections as they were; when the
\* references resolve, one record with an id that is no key of any collection is
\* added at the end of the target collection and nothing else changes.
C4_CreateResolvesReferences ==
    [][LET used == Keys(users_db) \cup Keys(posts_db) \cup Keys(comments_db)
           Added(db, dbNext) ==
               /\ Len(dbNext) = Len(db) + 1
               /\ SubSeq(dbNext, 1, Len(db)) = db
               /\ dbNext[Len(dbNext)].id \notin used
               /\ last'.body = dbNext[Len(dbNext)]
       IN  /\ last'.op = "create_post" =>
                \A post \in PostCreateInputs({Title_Hello}, {<<Tag_Py>>}, Ids(MaxRecordsCreate)) :
                  create_post(post) =>
                    IF post.author_id \notin Keys(users_db)
                    THEN last'.status = 404 /\ StoreUnchanged
                    ELSE /\ last'.status = 201
                         /\ Added(posts_db, posts_db')
                         /\ last'.body.author_id = post.author_id
                         /\ UNCHANGED <<users_db, comments_db>>
           /\ last'.op = "create_comment" =>
                \A comment \in CommentCreateInputs(Ids(MaxRecordsCreate)) :
                  create_comment(comment) =>
                    IF \/ comment.post_id \notin Keys(posts_db)
                       \/ comment.author_id \notin Keys(users_db)
                    THEN last'.status = 404 /\ StoreUnchanged
                    ELSE /\ last'.status = 201
                         /\ Added(comments_db, comments_db')
                         /\ last'.body.post_id = comment.post_id
                         /\ last'.body.author_id = comment.author_id
                         /\ UNCHANGED <<users_db, posts_db>>]_vars

\* a comment on a stored post was refused for its author, with comments stored
C4_Witness ==
    /\ last.op = "create_comment"
    /\ last.status = 404
    /\ last.detail = "Autor no encontrado"
    /\ posts_db # <<>>
    /\ comments_db # <<>>

\* C5: get_post of a stored post adds exactly 1 to its views, returns the record with
\* the new value, and changes no other field of it and no other record; the list
\* reads (get_posts, search_posts, get_post_comments, get_stats) change no post.
C5_ViewsCountSingleReads ==
    [][/\ last'.op = "get_post" =>
            \A post_id \in Ids(MaxRecordsViews) :
              get_post(post_id) =>
                IF post_id \in Keys(posts_db)
                THEN LET i == CHOOSE k \in 1..Len(posts_db) : posts_db[k].id = post_id
                         old == posts_db[i]
                     IN  /\ last'.status = 200
                         /\ last'.body.views = old.views + 1
                         /\ DOMAIN last'.body = DOMAIN old
                         /\ \A f \in DOMAIN old \ {"views"} : last'.body[f] = old[f]
                         /\ posts_db' = [posts_db EXCEPT ![i] = last'.body]
                         /\ UNCHANGED <<users_db, comments_db>>
                ELSE last'.status = 404 /\ StoreUnchanged
       /\ last'.op \in {"get_posts", "search_posts", "get_post_comments", "get_stats"} =>
            StoreUnchanged]_vars

\* the second of two reads of a post returned views = 2, with another post stored
C5_Witness ==
    /\ last.op = "get_post"
    /\ last.status = 200
    /\ last.body.views = 2
    /\ Len(posts_db) = 2

\* C6 as stated: get_posts(tag=x), with skip 0 and limit 10, returns the posts that
\* have a tag equal to x up to the case of the letters, in the order of creation.
C6_TagFilterIgnoresCase ==
    [][last'.op = "get_posts" =>
         \A x \in {<<>>, Tag_py, Tag_Py} :
           get_posts(0, 10, Some(x), None) =>
             LET HasTag(p) == \E i \in 1..Len(p.tags) : Lower(p.tags[i]) = Lower(x)
             IN  last'.body = Take(SelectSeq(posts_db, HasTag), 10)]_vars

\* C6 as amended: for a non-empty x, get_posts(tag=x) with skip 0 and a limit >= 0
\* (10 when not given) returns the posts that have a tag equal to x, letter case
\* included, in the order of creation, cut to the limit.
C6_TagFilterExact ==
    [][last'.op = "get_posts" =>
         \A x \in {Tag_py, Tag_Py}, limit \in {l \in LimitValues : l >= 0} :
           get_posts(0, limit, Some(x), None) =>
             LET HasTag(p) == \E i \in 1..Len(p.tags) : p.tags[i] = x
             IN  last'.body = Take(SelectSeq(posts_db, HasTag), limit)]_vars

\* of three posts of one author, get_posts returned the first and the third, which
\* carry the tag "Py", and not the second, which has no tag: a filter by tag
C6_Witness ==
    /\ last.op = "get_posts"
    /\ Len(posts_db) = 3
    /\ \A i \in 1..3 : posts_db[i].author_id = posts_db[1].author_id
    /\ posts_db[1].tags = <<Tag_Py>>
    /\ posts_db[2].tags = <<>>
    /\ posts_db[3].tags = <<Tag_Py>>
    /\ last.body = <<posts_db[1], posts_db[3]>>

\* the elements at the positions i (from 0) with skip <= i < skip + limit
Window(xs, skip, limit) == SubSeq(xs, Max(skip, 0) + 1, Min(skip + limit, Len(xs)))

\* C7: for every integer skip and limit the list operations return the elements at
\* the positions i with skip <= i < skip + limit of the filtered sequence, and never
\* more than max(limit, 0) of them.
C7_PageIsWindow ==
    [][\A skip \in SkipValues, limit \in LimitValues :
         LET Page(xs) ==
                 /\ last'.status = 200
                 /\ last'.body = Window(xs, skip, limit)
                 /\ Len(last'.body) <= Max(limit, 0)
         IN  /\ last'.op = "get_users" =>
                  (get_users(skip, limit) => Page(users_db))
             /\ last'.op = "get_posts" =>
                  \A tag \in TagFilters, author_id \in AuthorFilters :
                    get_posts(skip, limit, tag, author_id) =>
                      Page(FilterPosts(posts_db, tag, author_id))
             /\ last'.op = "search_posts" =>
                  \A q \in Queries :
                    search_posts(q, skip, limit) =>
                      LET Hit(post) == SearchMatches(Lower(q), post)
                      IN  Page(SelectSeq(posts_db, Hit))
             /\ last'.op = "get_post_comments" =>
                  \A post_id \in Keys(posts_db) :
                    get_post_comments(post_id, skip, limit) =>
                      LET OnPost(c) == c.post_id = post_id
                      IN  Page(SelectSeq(comments_db, OnPost))]_vars

C9_AtomicCreate ==
    /\ \A i, j \in 1..Len(users_db) :
         (\/ users_db[i].username = users_db[j].username
          \/ users_db[i].email = users_db[j].email) => i = j
    /\ \A i, j \in 1..Len(user_db) : user_db[i].id = user_db[j].id => i = j

\* C10: every stored post's author_id is a key of users_db, every stored comment's
\* post_id is a key of posts_db and its author_id a key of users_db.
C10_ReferentialIntegrity ==
    /\ \A i \in 1..Len(posts_db) : posts_db[i].author_id \in Keys(users_db)
    /\ \A i \in 1..Len(comments_db) :
         /\ comments_db[i].post_id \in Keys(posts_db)
         /\ comments_db[i].author_id \in Keys(users_db)

\* a post with a comment on it has just been deleted
C10_Witness ==
    /\ last.op = "delete_post"
    /\ last.status = 204
    /\ Len(last.comments_to_delete) >= 1

====
